---- MODULE Spec2Model ----
(***************************************************************************)
(* A model of server.js: the movies HTTP service.                          *)
(*                                                                         *)
(* The persisted collection is one JSON file (MOVIES_FILE).  Every route   *)
(* is an async handler behind the checkJwt middleware; the mutating routes *)
(* are also behind checkPermissions.  JavaScript runs each handler to      *)
(* completion between awaits, so a request takes one step per await:       *)
(*                                                                         *)
(*   Arrive    the request reaches the server, checkJwt starts             *)
(*   CheckJwt  checkJwt settles; on success next() runs checkPermissions   *)
(*             and the handler synchronously up to `await readMovies()`    *)
(*   ReadOk    fs.readFile + JSON.parse settle, the handler continues up   *)
(*             to `await writeMovies(..)` or to its response               *)
(*   ReadFail  readMovies throws (I/O error, malformed content)            *)
(*   WriteOk   fs.writeFile settles                                        *)
(*   WriteFail fs.writeFile rejects                                        *)
(*   Respond   the handler continues after the write and responds          *)
(*                                                                         *)
(* There is no lock: steps of different requests interleave freely.        *)
(* fs.writeFile is taken as one step; a read that meets a partly written   *)
(* file fails in JSON.parse, which is the ReadFail step.                   *)
(*                                                                         *)
(* State: file is the content of MOVIES_FILE; req the requests; writes the *)
(* number of completed writes; issued the ids returned by creates, in the  *)
(* order of their 201 responses.                                           *)
(* A request's body and route parameter are drawn where the handler first  *)
(* reads them (req.body at line 65, req.params.id at lines 80 and 93).     *)
(***************************************************************************)
EXTENDS Integers, Sequences, FiniteSets, TLC

VARIABLES file, req, writes, issued

vars == <<file, req, writes, issued>>

\* ------------------------------------------------------------ bounds
\* Number of requests the server receives in one run.
NumReq == 2

Reqs == 1..NumReq

\* ------------------------------------------------------------ inputs
Methods == {"GET", "POST", "PUT", "DELETE"}

Mutating == {"POST", "PUT", "DELETE"}

\* A credential: none, one checkJwt rejects (bad signature, issuer, audience,
\* expiry), or a valid token with or without a permissions claim.
NoCred == [kind |-> "none", hasPermissions |-> FALSE, permissions |-> {}]

BadCred == [kind |-> "invalid", hasPermissions |-> TRUE, permissions |-> {"manage:movies"}]

BareCred == [kind |-> "valid", hasPermissions |-> FALSE, permissions |-> {}]

ReaderCred == [kind |-> "valid", hasPermissions |-> TRUE, permissions |-> {"read:movies"}]

ManagerCred == [kind |-> "valid", hasPermissions |-> TRUE, permissions |-> {"read:movies", "manage:movies"}]

Creds == {NoCred, BadCred, BareCred, ReaderCred, ManagerCred}

\* req.body.title: <<>> is a body without title, <<t>> a body with title t.
NoTitle == <<>>

Titles == {NoTitle, <<"">>, <<"Dune">>, <<"Heat">>}

\* req.params.id: the path segment, a string given as its characters.
IdParams == {<<"1">>, <<"2">>, <<"2", "x">>, <<"x">>}

\* ------------------------------------------------------------ the store
Movie(i, t, w) == [id |-> i, title |-> t, watched |-> w]

NoFile == [kind |-> "ENOENT", data |-> <<>>]

Malformed == [kind |-> "malformed", data |-> <<>>]

Stored(movies) == [kind |-> "json", data |-> movies]

\* The backing file when the server starts: absent, or a collection with
\* pairwise distinct ids (not necessarily in id order).
InitFiles == {NoFile, Stored(<<Movie(2, "Solaris", TRUE), Movie(1, "Alien", FALSE)>>)}

Ids(movies) == {movies[i].id : i \in 1..Len(movies)}

Max(S) == CHOOSE m \in S : \A x \in S : x <= m

\* readMovies: the parsed file, [] when the file does not exist; throws on
\* any other failure.
readThrowsMissing(f) == f.kind # "json"

readThrows(f) == f.kind = "malformed"

readMovies(f) == IF f.kind = "ENOENT" THEN <<>> ELSE f.data

writeMoviesMerged(f, movies) ==
    IF f.kind # "json" THEN Stored(movies)
    ELSE Stored(f.data \o SelectSeq(movies, LAMBDA m : m.id \notin Ids(f.data)))

\* writeMovies: the file holds the serialized argument, whatever it held.
writeMovies(f, movies) == Stored(movies)

\* ------------------------------------------------------------ parseInt
\* parseInt(string) with no radix: leading white space is skipped, an
\* optional sign is read, then the longest prefix of decimal digits; NaN
\* when there is no digit.  NaN is <<>> and the number n is <<n>>.
\* (A "0x" prefix, which selects radix 16, is outside IdParams.)
NaN == <<>>

IsDigit(c) == c \in {"0", "1", "2", "3", "4", "5", "6", "7", "8", "9"}

DigitVal(c) ==
    CASE c = "0" -> 0 [] c = "1" -> 1 [] c = "2" -> 2 [] c = "3" -> 3
      [] c = "4" -> 4 [] c = "5" -> 5 [] c = "6" -> 6 [] c = "7" -> 7
      [] c = "8" -> 8 [] c = "9" -> 9

RECURSIVE SkipSpace(_)
SkipSpace(s) == IF s # <<>> /\ Head(s) = " " THEN SkipSpace(Tail(s)) ELSE s

RECURSIVE DigitsValue(_, _)
DigitsValue(s, acc) ==
    IF s # <<>> /\ IsDigit(Head(s))
    THEN DigitsValue(Tail(s), 10 * acc + DigitVal(Head(s)))
    ELSE acc

parseInt(str) ==
    LET s == SkipSpace(str)
        signed == s # <<>> /\ Head(s) \in {"-", "+"}
        sign == IF s # <<>> /\ Head(s) = "-" THEN -1 ELSE 1
        d == IF signed THEN Tail(s) ELSE s
    IN  IF d # <<>> /\ IsDigit(Head(d)) THEN <<sign * DigitsValue(d, 0)>> ELSE NaN

\* m.id === parseInt(req.params.id): NaN equals nothing.
StrictEq(id, n) == n # NaN /\ id = n[1]

\* ------------------------------------------------------------ the guards
\* checkJwt lets a request through iff its bearer token verifies.
checkJwt(cred) == cred.kind = "valid"

\* req.auth?.payload?.permissions || []
permissions(cred) == IF cred.hasPermissions THEN cred.permissions ELSE {}

checkPermissionsAny(cred) == permissions(cred) # {}

\* checkPermissions calls next() iff permissions includes 'manage:movies'.
checkPermissions(cred) == "manage:movies" \in permissions(cred)

titleUndefined(title) == title = NoTitle

\* !title
titleMissing(title) == title = NoTitle \/ title[1] = ""

\* ------------------------------------------------------------ the handlers
nextIdLen(movies) == Len(movies) + 1

nextIdLast(movies) == IF Len(movies) > 0 THEN movies[Len(movies)].id + 1 ELSE 1

nextIdFloor(movies) == IF Len(movies) > 0 THEN Max(Ids(movies)) ELSE 1

\* movies.length > 0 ? Math.max(...movies.map(m => m.id)) + 1 : 1
nextId(movies) == IF Len(movies) > 0 THEN Max(Ids(movies)) + 1 ELSE 1

newMovie(movies, title) == Movie(nextId(movies), title[1], FALSE)

\* movies.findIndex(m => m.id === n): the first match, 0 for JavaScript's -1.
movieIndex(movies, n) ==
    LET hits == {i \in 1..Len(movies) : StrictEq(movies[i].id, n)}
    IN  IF hits = {} THEN 0 ELSE CHOOSE i \in hits : \A j \in hits : i <= j

toggleWatchedSet(movies, i) == [movies EXCEPT ![i].watched = TRUE]

\* movies[movieIndex].watched = !movies[movieIndex].watched
toggleWatched(movies, i) == [movies EXCEPT ![i].watched = ~movies[i].watched]

filteredMoviesPop(movies, n) ==
    IF movieIndex(movies, n) = 0 THEN movies ELSE SubSeq(movies, 1, Len(movies) - 1)

\* movies.filter(m => m.id !== n)
filteredMovies(movies, n) == SelectSeq(movies, LAMBDA m : ~StrictEq(m.id, n))

\* ------------------------------------------------------------ requests
\* A request: its position (pc), what it carries, what its handler holds in
\* memory (loaded: the result of readMovies; saved: the argument of
\* writeMovies), and its response (status 0: none yet).  nread and nwrite
\* count its calls of readMovies and writeMovies; readAt and wroteAt place
\* its read and its write among the writes of the run; error names the call
\* that threw ("" for none).
Idle ==
    [pc |-> "idle", method |-> "GET", cred |-> NoCred, title |-> NoTitle,
     param |-> <<>>, loaded |-> <<>>, saved |-> <<>>, status |-> 0,
     body |-> <<>>, nread |-> 0, nwrite |-> 0, readAt |-> 0, wroteAt |-> 0,
     error |-> ""]

\* res.status(s).send(..) / res.json(..): body holds the movie records of a
\* JSON response, <<>> for a text or empty one.
reply(q, s, b) == [q EXCEPT !.pc = "responded", !.status = s, !.body = b]

\* catch (error) { res.status(500).send(..) }
catchRetry(q, thrower) ==
    [q EXCEPT !.error = thrower, !.pc = "reading", !.nread = q.nread + 1]

catchSilent(q, thrower) == reply([q EXCEPT !.error = thrower], 200, <<>>)

catch(q, thrower) == reply([q EXCEPT !.error = thrower], 500, <<>>)

\* await readMovies()
startRead(q) == [q EXCEPT !.pc = "reading", !.nread = q.nread + 1]

\* await writeMovies(movies)
startWrite(q, movies) ==
    [q EXCEPT !.pc = "writing", !.saved = movies, !.nwrite = q.nwrite + 1]

\* app.post('/api/movies'): lines 65-67, up to the read.
postHandler(q, title) ==
    IF titleMissing(title)
    THEN reply([q EXCEPT !.title = title], 400, <<>>)
    ELSE startRead([q EXCEPT !.title = title])

\* Lines 54-55, 67-70, 79-83, 92-95: from the read to the next await or to
\* the response.
getLoadedUnwatched(q, movies) ==
    reply([q EXCEPT !.loaded = movies], 200,
          SelectSeq(movies, LAMBDA m : ~m.watched))

getLoaded(q, movies) == reply([q EXCEPT !.loaded = movies], 200, movies)

postLoaded(q, movies) ==
    startWrite([q EXCEPT !.loaded = movies],
               Append(movies, newMovie(movies, q.title)))

putLoaded(q, movies, param) ==
    LET p == [q EXCEPT !.loaded = movies, !.param = param]
        i == movieIndex(movies, parseInt(param))
    IN  IF i = 0 THEN reply(p, 404, <<>>)
        ELSE startWrite(p, toggleWatched(movies, i))

deleteLoadedUnchecked(q, movies, param) ==
    startWrite([q EXCEPT !.loaded = movies, !.param = param],
               filteredMovies(movies, parseInt(param)))

deleteLoaded(q, movies, param) ==
    LET p == [q EXCEPT !.loaded = movies, !.param = param]
        f == filteredMovies(movies, parseInt(param))
    IN  IF Len(movies) = Len(f) THEN reply(p, 404, <<>>)
        ELSE startWrite(p, f)

\* Lines 71, 84, 96: the response after the write.
postSaved(q) == reply(q, 201, <<q.saved[Len(q.saved)]>>)

putSaved(q) ==
    reply(q, 200, <<q.saved[movieIndex(q.saved, parseInt(q.param))]>>)

deleteSaved(q) == reply(q, 204, <<>>)

\* ------------------------------------------------------------ actions
Init ==
    /\ file \in InitFiles
    /\ req = [r \in Reqs |-> Idle]
    /\ writes = 0
    /\ issued = <<>>

\* Requests are numbered in the order they arrive.
Arrive(r) ==
    /\ req[r].pc = "idle"
    /\ IF r = 1 THEN TRUE ELSE req[r - 1].pc # "idle"
    /\ \E m \in Methods, c \in Creds :
         req' = [req EXCEPT ![r] = [Idle EXCEPT !.pc = "received",
                                                !.method = m, !.cred = c]]
    /\ UNCHANGED <<file, writes, issued>>

CheckJwtBodyFirst(r) ==
    LET q == req[r] IN
    /\ q.pc = "received"
    /\ IF ~checkJwt(q.cred)
       THEN req' = [req EXCEPT ![r] = reply(q, 401, <<>>)]
       ELSE IF q.method = "GET"
       THEN req' = [req EXCEPT ![r] = startRead(q)]
       ELSE IF q.method = "POST"
       THEN \E title \in Titles :
                req' = [req EXCEPT ![r] =
                    IF titleMissing(title) \/ checkPermissions(q.cred)
                    THEN postHandler(q, title)
                    ELSE reply(q, 403, <<>>)]
       ELSE IF ~checkPermissions(q.cred)
       THEN req' = [req EXCEPT ![r] = reply(q, 403, <<>>)]
       ELSE req' = [req EXCEPT ![r] = startRead(q)]
    /\ UNCHANGED <<file, writes, issued>>

\* checkJwt settles; next() then runs checkPermissions (mutating routes) and
\* the handler up to its first await.
CheckJwt(r) ==
    LET q == req[r] IN
    /\ q.pc = "received"
    /\ IF ~checkJwt(q.cred)
       THEN req' = [req EXCEPT ![r] = reply(q, 401, <<>>)]
       ELSE IF q.method = "GET"
       THEN req' = [req EXCEPT ![r] = startRead(q)]
       ELSE IF ~checkPermissions(q.cred)
       THEN req' = [req EXCEPT ![r] = reply(q, 403, <<>>)]
       ELSE IF q.method = "POST"
       THEN \E title \in Titles : req' = [req EXCEPT ![r] = postHandler(q, title)]
       ELSE req' = [req EXCEPT ![r] = startRead(q)]
    /\ UNCHANGED <<file, writes, issued>>

\* readMovies resolves with the collection as the file holds it now, and the
\* handler runs on to its write or its response.
ReadOk(r) ==
    LET q == [req[r] EXCEPT !.readAt = writes]
        movies == readMovies(file)
    IN
    /\ req[r].pc = "reading"
    /\ ~readThrows(file)
    /\ CASE q.method = "GET" -> req' = [req EXCEPT ![r] = getLoaded(q, movies)]
         [] q.method = "POST" -> req' = [req EXCEPT ![r] = postLoaded(q, movies)]
         [] q.method = "PUT" ->
              \E param \in IdParams : req' = [req EXCEPT ![r] = putLoaded(q, movies, param)]
         [] q.method = "DELETE" ->
              \E param \in IdParams : req' = [req EXCEPT ![r] = deleteLoaded(q, movies, param)]
    /\ UNCHANGED <<file, writes, issued>>

\* readMovies throws: malformed content, or an I/O error other than ENOENT.
\* The handler's catch answers 500.
ReadFail(r) ==
    /\ req[r].pc = "reading"
    /\ req' = [req EXCEPT ![r] = catch(req[r], "read")]
    /\ UNCHANGED <<file, writes, issued>>

\* fs.writeFile resolves: the file holds what this handler serialized.
WriteOk(r) ==
    /\ req[r].pc = "writing"
    /\ file' = writeMovies(file, req[r].saved)
    /\ writes' = writes + 1
    /\ req' = [req EXCEPT ![r].pc = "written", ![r].wroteAt = writes + 1]
    /\ UNCHANGED issued

\* fs.writeFile rejects: the file is as it was, or holds a truncated text.
\* The handler's catch answers 500.
WriteFail(r) ==
    /\ req[r].pc = "writing"
    /\ file' \in {file, Malformed}
    /\ req' = [req EXCEPT ![r] = catch(req[r], "write")]
    /\ UNCHANGED <<writes, issued>>

\* The handler continues after writeMovies and responds.
Respond(r) ==
    LET q == req[r] IN
    /\ q.pc = "written"
    /\ CASE q.method = "POST" ->
              /\ req' = [req EXCEPT ![r] = postSaved(q)]
              /\ issued' = Append(issued, q.saved[Len(q.saved)].id)
         [] q.method = "PUT" ->
              /\ req' = [req EXCEPT ![r] = putSaved(q)]
              /\ UNCHANGED issued
         [] q.method = "DELETE" ->
              /\ req' = [req EXCEPT ![r] = deleteSaved(q)]
              /\ UNCHANGED issued
    /\ UNCHANGED <<file, writes>>

Next ==
    \E r \in Reqs :
        \/ Arrive(r)
        \/ CheckJwt(r)
        \/ ReadOk(r)
        \/ ReadFail(r)
        \/ WriteOk(r)
        \/ WriteFail(r)
        \/ Respond(r)

Spec == Init /\ [][Next]_vars

\* checkJwt settles, every fs.readFile and fs.writeFile completes or fails,
\* and the event loop runs every continuation that is ready.
Fairness ==
    \A r \in Reqs :
        /\ WF_vars(CheckJwt(r))
        /\ WF_vars(ReadOk(r) \/ ReadFail(r))
        /\ WF_vars(WriteOk(r) \/ WriteFail(r))
        /\ WF_vars(Respond(r))

FairSpec == Init /\ [][Next]_vars /\ Fairness

\* The runs in which a handler whose write has completed responds before any
\* other request takes a step (the continuation of `await writeMovies(..)`
\* runs as soon as the promise resolves), so that responses are sent in the
\* order of the saves.  Every such run is a run of Spec.
NoneWritten(r) == \A o \in Reqs \ {r} : req[o].pc # "written"

PromptNext ==
    \E r \in Reqs :
        \/ NoneWritten(r) /\ Arrive(r)
        \/ NoneWritten(r) /\ CheckJwt(r)
        \/ NoneWritten(r) /\ ReadOk(r)
        \/ NoneWritten(r) /\ ReadFail(r)
        \/ NoneWritten(r) /\ WriteOk(r)
        \/ NoneWritten(r) /\ WriteFail(r)
        \/ NoneWritten(r) /\ Respond(r)

SpecPrompt == Init /\ [][PromptNext]_vars

\* ------------------------------------------------------------ properties
Success == {200, 201, 204}

Done(r) == req[r].pc = "responded"

HasManage(cred) == cred.hasPermissions /\ "manage:movies" \in cred.permissions

Authorized(q) == q.cred.kind = "valid" /\ HasManage(q.cred)

\* The request read the collection: readMovies returned to its handler.
HasLoaded(q) == q.nread = 1 /\ q.pc # "reading" /\ q.error # "read"

\* The request got as far as calling writeMovies.
HasSaved(q) == q.nwrite = 1

\* The record of `movies` the route parameter names, if any.
Named(movies, param) ==
    {i \in 1..Len(movies) : parseInt(param) # NaN /\ movies[i].id = parseInt(param)[1]}

\* The status the handler owes a request that passed both guards.
Expected(q) ==
    CASE q.error # "" -> 500
      [] q.method = "POST" -> IF q.title = NoTitle \/ q.title = <<"">> THEN 400 ELSE 201
      [] q.method = "PUT" -> IF Named(q.loaded, q.param) = {} THEN 404 ELSE 200
      [] q.method = "DELETE" -> IF Named(q.loaded, q.param) = {} THEN 404 ELSE 204

\* C1: a mutating request is answered 401 without a valid credential, 403
\* with a valid credential that lacks 'manage:movies', and otherwise reaches
\* the handler, which answers 201, 200 or 204 unless the title is missing
\* (400), the id is unknown (404) or the store fails (500).
C1_GuardOutcome ==
    \A r \in Reqs :
        (Done(r) /\ req[r].method \in Mutating) =>
            /\ req[r].cred.kind # "valid" => req[r].status = 401
            /\ (req[r].cred.kind = "valid" /\ ~HasManage(req[r].cred)) => req[r].status = 403
            /\ Authorized(req[r]) => req[r].status = Expected(req[r])

\* A valid credential without the permission was answered 403 and one with
\* it was answered 201, 200 or 204, on mutating routes.
C1_Witness ==
    \E b, c \in Reqs :
        /\ Done(b) /\ req[b].method \in Mutating /\ req[b].status = 403
        /\ req[b].cred.kind = "valid"
        /\ Done(c) /\ req[c].method \in Mutating /\ req[c].status \in Success
        /\ Authorized(req[c])

\* Both requests loaded the collection before either saved.
Overlap(a, b) ==
    /\ req[a].wroteAt # 0 /\ req[b].wroteAt # 0
    /\ req[a].readAt < req[b].wroteAt
    /\ req[b].readAt < req[a].wroteAt

\* C2: when two mutating requests overlap, the later save overwrites the
\* earlier one: while it is the latest write, the persisted collection is
\* the later request's own copy, built from what it loaded before the earlier
\* save; two overlapping creates leave only one record more than was loaded.
C2_LaterSaveWins ==
    \A a, b \in Reqs :
        (/\ Overlap(a, b)
         /\ req[a].wroteAt < req[b].wroteAt
         /\ writes = req[b].wroteAt
         /\ file.kind = "json") =>
            /\ file.data = req[b].saved
            /\ (req[a].method = "POST" /\ req[b].method = "POST") =>
                   /\ Len(file.data) = Len(req[b].loaded) + 1
                   /\ SubSeq(file.data, 1, Len(req[b].loaded)) = req[b].loaded

\* Two creates both answered 201, no other request wrote, and the record one
\* of them returned is not in the file.
C2_LostUpdate ==
    \E a, b \in Reqs :
        /\ a # b /\ Overlap(a, b)
        /\ Done(a) /\ req[a].method = "POST" /\ req[a].status = 201
        /\ Done(b) /\ req[b].method = "POST" /\ req[b].status = 201
        /\ \A r \in Reqs \ {a, b} : req[r].nwrite = 0
        /\ file.kind = "json"
        /\ \A i \in 1..Len(file.data) : file.data[i] # req[a].body[1]

\* C3: the ids returned by creates answered 201, in the order of the
\* responses, are strictly increasing (so pairwise distinct).  Checked under
\* SpecPrompt, where the order of the responses is the order of the saves.
C3_IdsIncreasing ==
    \A i, j \in 1..Len(issued) : i < j => issued[i] < issued[j]

\* C4: no two records of the persisted collection have the same id.
C4_UniqueIds ==
    file.kind = "json" =>
        \A i, j \in 1..Len(file.data) : i # j => file.data[i].id # file.data[j].id

\* Two overlapping creates computed the same id and both saved.
C4_Witness ==
    /\ file.kind = "json"
    /\ \E a, b \in Reqs :
         /\ a # b /\ Overlap(a, b)
         /\ req[a].method = "POST" /\ req[b].method = "POST"
         /\ req[a].saved[Len(req[a].saved)].id = req[b].saved[Len(req[b].saved)].id

\* The id a create assigned.
NewId(q) == q.saved[Len(q.saved)].id

\* Delete d answered 204 and create c, answered 201, loaded the collection
\* after d's save.
CreatedAfterDelete(d, c) ==
    /\ req[d].method = "DELETE" /\ Done(d) /\ req[d].status = 204
    /\ req[c].method = "POST" /\ Done(c) /\ req[c].status = 201
    /\ req[d].wroteAt <= req[c].readAt

\* C5 as stated: the id of a record whose delete was answered 204 is never
\* assigned to a record created afterwards.
C5_NoIdReuse ==
    \A d, c \in Reqs :
        CreatedAfterDelete(d, c) => parseInt(req[d].param) # <<NewId(req[c])>>

\* C5 as amended: a create never assigns an id that a record of the
\* collection it loaded holds; its id is greater than each of them.
C5_FreshAmongLoaded ==
    \A c \in Reqs :
        (req[c].method = "POST" /\ HasSaved(req[c])) =>
            \A i \in 1..Len(req[c].loaded) : req[c].loaded[i].id < NewId(req[c])

\* A create was given the id of a record deleted before it loaded.
C5_Reused ==
    \E d, c \in Reqs :
        CreatedAfterDelete(d, c) /\ parseInt(req[d].param) = <<NewId(req[c])>>

\* An authorized create whose handler has read req.body and found no title
\* or an empty one.
BadCreate(q) ==
    /\ q.method = "POST" /\ Authorized(q)
    /\ q.pc \notin {"idle", "received"}
    /\ q.title \in {NoTitle, <<"">>}

\* C6: an authorized create with a missing or empty title is answered 400,
\* calls neither readMovies nor writeMovies, and no step of it changes the
\* file.
C6_MissingTitle ==
    /\ [](\A r \in Reqs :
            BadCreate(req[r]) =>
                /\ Done(r) /\ req[r].status = 400
                /\ req[r].nread = 0 /\ req[r].nwrite = 0 /\ req[r].wroteAt = 0)
    /\ [][\A r \in Reqs :
            (req'[r] # req[r] /\ BadCreate(req'[r])) => file' = file]_vars

C6_Witness ==
    \E a, b \in Reqs :
        /\ Done(a) /\ BadCreate(req[a]) /\ req[a].title = NoTitle
        /\ Done(b) /\ BadCreate(req[b]) /\ req[b].title = <<"">>

\* C7: two toggles of the same id, both answered 200, with no other request
\* writing, leave the record's watched flag as it was before both.
C7_ToggleTwice ==
    \A a, b \in Reqs :
        (/\ a # b
         /\ req[a].method = "PUT" /\ Done(a) /\ req[a].status = 200
         /\ req[b].method = "PUT" /\ Done(b) /\ req[b].status = 200
         /\ parseInt(req[a].param) = parseInt(req[b].param)
         /\ req[a].readAt <= req[b].readAt
         /\ \A r \in Reqs \ {a, b} : req[r].nwrite = 0
         /\ file.kind = "json") =>
            \A i \in Named(req[a].loaded, req[a].param) :
                \A k \in Named(file.data, req[a].param) :
                    file.data[k].watched = req[a].loaded[i].watched

\* An authorized delete that loaded a collection in which no record has the
\* id of its route parameter.
DeleteOfUnknown(q) ==
    /\ q.method = "DELETE" /\ Authorized(q) /\ HasLoaded(q)
    /\ Named(q.loaded, q.param) = {}

\* C8: an authorized delete of an id the loaded collection does not hold is
\* answered 404, never calls writeMovies, and no step of it changes the file.
C8_DeleteUnknown ==
    /\ [](\A r \in Reqs :
            DeleteOfUnknown(req[r]) =>
                /\ Done(r) /\ req[r].status = 404
                /\ req[r].nwrite = 0 /\ req[r].wroteAt = 0)
    /\ [][\A r \in Reqs :
            (req'[r] # req[r] /\ DeleteOfUnknown(req'[r])) => file' = file]_vars

\* A 404 for an id that is a number no record has, with records loaded.
C8_Witness ==
    \E r \in Reqs :
        /\ Done(r) /\ DeleteOfUnknown(req[r])
        /\ req[r].loaded # <<>> /\ parseInt(req[r].param) # NaN

\* `movies` without its k-th record.
Without(movies, k) ==
    SubSeq(movies, 1, k - 1) \o SubSeq(movies, k + 1, Len(movies))

\* An authorized delete that loaded a collection holding the id of its route
\* parameter.
DeleteOfKnown(q) ==
    /\ q.method = "DELETE" /\ Authorized(q) /\ HasLoaded(q)
    /\ Named(q.loaded, q.param) # {}

\* C9: an authorized delete of an id the loaded collection holds saves that
\* collection without the record of that id, one record shorter and
\* otherwise unchanged and in the same order, and is answered 204 (500 if
\* the write fails).
C9_DeleteKnown ==
    \A r \in Reqs :
        DeleteOfKnown(req[r]) =>
            /\ HasSaved(req[r])
            /\ Len(req[r].saved) = Len(req[r].loaded) - 1
            /\ Named(req[r].saved, req[r].param) = {}
            /\ \E k \in Named(req[r].loaded, req[r].param) :
                   req[r].saved = Without(req[r].loaded, k)
            /\ Done(r) => /\ req[r].status = IF req[r].error = "" THEN 204 ELSE 500
                          /\ req[r].status = 204 => req[r].wroteAt # 0

\* A 204 for a record that was not the last of the collection loaded.
C9_Witness ==
    \E r \in Reqs :
        /\ Done(r) /\ DeleteOfKnown(req[r]) /\ req[r].status = 204
        /\ Len(req[r].loaded) \notin Named(req[r].loaded, req[r].param)

\* An authorized create with a non-empty title that has loaded the collection.
GoodCreate(q) ==
    /\ q.method = "POST" /\ Authorized(q) /\ HasLoaded(q)
    /\ q.title \notin {NoTitle, <<"">>}

\* 1 + the greatest id of `movies`, 1 when it is empty.
OnePlusMax(movies) ==
    IF movies = <<>> THEN 1
    ELSE 1 + (CHOOSE m \in Ids(movies) : \A x \in Ids(movies) : x <= m)

\* C10: an authorized create with a non-empty title saves the collection it
\* loaded followed by one record with id 1 + max(loaded ids) (1 if none),
\* the given title and watched = false, and is answered 201 with exactly that
\* record (500 if the write fails).
C10_Create ==
    \A r \in Reqs :
        GoodCreate(req[r]) =>
            /\ HasSaved(req[r])
            /\ req[r].saved =
                   req[r].loaded \o
                   <<[id |-> OnePlusMax(req[r].loaded),
                      title |-> req[r].title[1], watched |-> FALSE]>>
            /\ Done(r) =>
                   /\ req[r].status = IF req[r].error = "" THEN 201 ELSE 500
                   /\ req[r].status = 201 =>
                          /\ req[r].wroteAt # 0
                          /\ req[r].body = <<req[r].saved[Len(req[r].saved)]>>

\* A 201 on a collection whose greatest id is not its last record's.
C10_Witness ==
    \E r \in Reqs :
        /\ Done(r) /\ GoodCreate(req[r]) /\ req[r].status = 201
        /\ Len(req[r].loaded) > 1
        /\ req[r].loaded[Len(req[r].loaded)].id + 1 # NewId(req[r])

\* The collection a read of file content f yields.
Collection(f) == IF f.kind = "json" THEN f.data ELSE <<>>

\* C11: a list request needs a valid credential and no permission: it is
\* answered 401 without one and otherwise 200 (500 if the read fails), with
\* the whole collection as the file held it at the step of its read; it never
\* calls writeMovies and no step of it changes the file.
C11_List ==
    /\ [](\A r \in Reqs :
            (req[r].method = "GET" /\ Done(r)) =>
                /\ req[r].cred.kind # "valid" => req[r].status = 401
                /\ req[r].cred.kind = "valid" =>
                       req[r].status = IF req[r].error = "" THEN 200 ELSE 500
                /\ req[r].status = 200 => req[r].body = req[r].loaded
                /\ req[r].nwrite = 0 /\ req[r].wroteAt = 0)
    /\ [][\A r \in Reqs :
            (req'[r] # req[r] /\ req'[r].method = "GET") =>
                /\ file' = file
                /\ req'[r].status = 200 => req'[r].body = Collection(file)]_vars

\* A list by a caller without 'manage:movies' was answered 200 with a
\* non-empty collection that another request has since replaced.
C11_Witness ==
    \E r \in Reqs :
        /\ req[r].method = "GET" /\ Done(r) /\ req[r].status = 200
        /\ ~HasManage(req[r].cred)
        /\ req[r].body # <<>>
        /\ file.kind = "json" /\ file.data # req[r].body

\* The one record a create saves when it loaded nothing.
FirstMovie(q) == [id |-> 1, title |-> q.title[1], watched |-> FALSE]

\* C12: while the backing file does not exist, a read succeeds with the
\* empty collection: list is answered 200 with [], toggle and delete 404
\* without a write (the file still does not exist), and create saves the
\* single record with id 1, which creates the file, and is answered 201 with
\* id 1.
C12_NoFile ==
    /\ [](file.kind = "ENOENT" =>
            \A r \in Reqs :
                /\ req[r].pc = "reading" => ENABLED ReadOk(r)
                /\ HasLoaded(req[r]) =>
                       /\ req[r].loaded = <<>>
                       /\ req[r].method = "GET" =>
                              Done(r) /\ req[r].status = 200 /\ req[r].body = <<>>
                       /\ req[r].method \in {"PUT", "DELETE"} =>
                              Done(r) /\ req[r].status = 404 /\ req[r].nwrite = 0
                       /\ req[r].method = "POST" =>
                              req[r].saved = <<FirstMovie(req[r])>>)
    /\ [](\A r \in Reqs :
            (req[r].method = "POST" /\ Done(r) /\ req[r].status = 201
                /\ req[r].loaded = <<>>) => req[r].body = <<FirstMovie(req[r])>>)
    /\ [][\A r \in Reqs :
            (file.kind = "ENOENT" /\ req'[r] # req[r]) =>
                IF req[r].pc = "writing" /\ req'[r].pc = "written"
                THEN file' = Stored(<<FirstMovie(req[r])>>)
                ELSE req[r].method # "POST" => file' = file]_vars

\* Started without a file: a toggle or delete of a numeric id was answered
\* 404 and a create was answered 201 with id 1, its record now the file.
C12_Witness ==
    \E a, b \in Reqs :
        /\ req[a].method \in {"PUT", "DELETE"} /\ Done(a) /\ req[a].status = 404
        /\ req[a].readAt = 0 /\ req[a].loaded = <<>>
        /\ parseInt(req[a].param) # NaN
        /\ req[b].method = "POST" /\ Done(b) /\ req[b].status = 201
        /\ req[b].readAt = 0 /\ req[b].loaded = <<>>
        /\ file = Stored(req[b].body)

\* C13: a handler whose readMovies or writeMovies threw has answered 500,
\* never a 2xx; if it was the read, the handler called writeMovies not at
\* all; and while the file is malformed no read succeeds.
C13_StoreFailure ==
    \A r \in Reqs :
        /\ req[r].error # "" =>
               /\ Done(r) /\ req[r].status = 500
               /\ req[r].nread = 1
               /\ req[r].error = "read" => req[r].nwrite = 0 /\ req[r].wroteAt = 0
               /\ req[r].error = "write" => req[r].nwrite = 1 /\ req[r].wroteAt = 0
        /\ req[r].status \in Success => req[r].error = ""
        /\ (file.kind = "malformed" /\ req[r].pc = "reading") => ~ENABLED ReadOk(r)

\* A write failed and left a malformed file, and an authorized request that
\* then read it was answered 500.
C13_Witness ==
    \E a, b \in Reqs :
        /\ req[a].error = "write" /\ Done(a)
        /\ file.kind = "malformed"
        /\ req[b].error = "read" /\ Done(b) /\ Authorized(req[b])
        /\ req[b].method \in Mutating

\* The handler body of the request has started: it has read req.body or
\* called readMovies or writeMovies.
BodyRan(q) ==
    \/ q.pc \in {"reading", "writing", "written"}
    \/ q.nread > 0 \/ q.nwrite > 0 \/ q.wroteAt > 0
    \/ q.title # NoTitle \/ q.param # <<>>
    \/ q.status \in {200, 201, 204, 400, 404, 500}

\* C14: on a mutating route the handler body runs only for a request that
\* passed checkJwt and checkPermissions: without a valid credential the
\* answer is 401 whatever else is wrong, with a valid one lacking the
\* permission it is 403 (never 400 or 404), a request answered 401 or 403
\* has called neither readMovies nor writeMovies, and no step of a request
\* that fails a guard changes the file.
C14_GuardsFirst ==
    /\ [](\A r \in Reqs :
            req[r].method \in Mutating =>
                /\ BodyRan(req[r]) => Authorized(req[r])
                /\ (Done(r) /\ req[r].cred.kind # "valid") => req[r].status = 401
                /\ (Done(r) /\ req[r].cred.kind = "valid" /\ ~HasManage(req[r].cred)) =>
                       req[r].status = 403
                /\ req[r].status \in {401, 403} =>
                       req[r].nread = 0 /\ req[r].nwrite = 0 /\ req[r].wroteAt = 0)
    /\ [][\A r \in Reqs :
            (req'[r] # req[r] /\ req'[r].method \in Mutating
                /\ ~Authorized(req'[r])) => file' = file]_vars

\* A create without a credential was answered 401 and a create with a valid
\* credential lacking the permission 403.
C14_Witness ==
    \E a, b \in Reqs :
        /\ req[a].method = "POST" /\ Done(a) /\ req[a].status = 401
        /\ req[b].method = "POST" /\ Done(b) /\ req[b].status = 403
        /\ req[b].cred.kind = "valid"

\* How far along the pipeline a request is.
Rank(pc) ==
    CASE pc = "idle" -> 0 [] pc = "received" -> 1 [] pc = "reading" -> 2
      [] pc = "writing" -> 3 [] pc = "written" -> 4 [] pc = "responded" -> 5

\* C15: under FairSpec every request received is eventually answered; each
\* step moves it forward in the pipeline (no retry), it calls readMovies at
\* most once and writeMovies at most once, and once answered it takes no
\* further step (no second response).
C15_SinglePass ==
    /\ \A r \in Reqs : (req[r].pc # "idle") ~> Done(r)
    /\ [](\A r \in Reqs :
            /\ req[r].nread <= 1 /\ req[r].nwrite <= 1
            /\ req[r].status # 0 <=> Done(r))
    /\ [][\A r \in Reqs :
            /\ req'[r] # req[r] => Rank(req'[r].pc) > Rank(req[r].pc)
            /\ Done(r) => req'[r] = req[r]]_vars

\* One request was answered 500 after a failed write and another 2xx after
\* its write, each after one read and one write.
C15_Witness ==
    \E a, b \in Reqs :
        /\ Done(a) /\ req[a].error = "write" /\ req[a].nread = 1 /\ req[a].nwrite = 1
        /\ Done(b) /\ req[b].status \in Success /\ req[b].nread = 1 /\ req[b].nwrite = 1

\* The request is a toggle whose id names a record of the collection it loaded.
ToggleOfKnown(q) ==
    /\ q.method = "PUT" /\ Authorized(q) /\ HasLoaded(q)
    /\ Named(q.loaded, q.param) # {}

\* saved is loaded with exactly the watched flag of record k negated.
OnlyNegated(loaded, saved, k) ==
    /\ Len(saved) = Len(loaded)
    /\ saved[k].id = loaded[k].id /\ saved[k].title = loaded[k].title
    /\ saved[k].watched = ~loaded[k].watched
    /\ \A i \in 1..Len(loaded) : i # k => saved[i] = loaded[i]

\* C16: a toggle whose id is in the collection it loaded passes to
\* writeMovies that collection with only the watched flag of the first record
\* with that id negated (same length, same order, same id and title, every
\* other record untouched); the save stores exactly that collection; the
\* request answers 200 only after the save, with the record as saved as body.
C16_Toggle ==
    /\ [](\A r \in Reqs : ToggleOfKnown(req[r]) =>
            \E k \in Named(req[r].loaded, req[r].param) :
                /\ \A j \in Named(req[r].loaded, req[r].param) : k <= j
                /\ HasSaved(req[r])
                /\ OnlyNegated(req[r].loaded, req[r].saved, k)
                /\ Done(r) => req[r].status = IF req[r].error = "" THEN 200 ELSE 500
                /\ req[r].status = 200 =>
                       req[r].wroteAt # 0 /\ req[r].body = <<req[r].saved[k]>>)
    /\ [][\A r \in Reqs :
            (req[r].method = "PUT" /\ req[r].pc = "writing" /\ req'[r].pc = "written")
                => file' = Stored(req[r].saved)]_vars

\* A toggle of a watched record was answered 200 with the record unwatched.
C16_Witness ==
    \E r \in Reqs :
        /\ ToggleOfKnown(req[r]) /\ Done(r) /\ req[r].status = 200
        /\ Len(req[r].loaded) = 2
        /\ \E k \in Named(req[r].loaded, req[r].param) :
               req[r].loaded[k].watched /\ req[r].body = <<[req[r].loaded[k] EXCEPT !.watched = FALSE]>>

\* Delete d was answered 204 for the id n.
Deleted(d, n) ==
    /\ req[d].method = "DELETE" /\ Done(d) /\ req[d].status = 204
    /\ parseInt(req[d].param) = <<n>>

\* Create c loaded the collection after d's save and saved a record with id n.
AssignedAfter(d, c, n) ==
    /\ req[c].method = "POST" /\ HasSaved(req[c]) /\ req[c].wroteAt # 0
    /\ req[d].wroteAt <= req[c].readAt
    /\ NewId(req[c]) = n

\* C17: once a delete of id n has been answered 204, the stored collection
\* holds a record with id n only if a create that loaded the collection
\* after the delete's save assigned n.
C17_DeletedStaysDeleted ==
    \A d \in Reqs : \A n \in Ids(Collection(file)) :
        Deleted(d, n) =>
            \E c \in Reqs : AssignedAfter(d, c, n)

\* C18: of two deletes of the same id n that are both answered 204, the
\* later to load was preceded by a create that assigned n after the
\* earlier one's save; otherwise at most one of them is answered 204.
C18_OneDeleteSucceeds ==
    \A a, b \in Reqs : \A n \in Ids(req[a].loaded) :
        (a # b /\ Deleted(a, n) /\ Deleted(b, n) /\ req[a].readAt <= req[b].readAt) =>
            \E c \in Reqs : AssignedAfter(a, c, n) /\ req[c].wroteAt <= req[b].readAt

====
